---- MODULE Spec2Model ----
(***************************************************************************)
(* Notes filesystem watcher of src-tauri: the NotesWatcherState slot       *)
(* (a Mutex around an Option<WatcherGuard>), WatcherGuard::stop,           *)
(* spawn_fs_watcher with its forwarding thread, and the set_notes_root     *)
(* command.  The notify crate and the operating system are the             *)
(* environment: the native layer puts notifications on the channel of a    *)
(* live watcher, may close that channel on its own, and roots may be       *)
(* deleted externally.                                                     *)
(***************************************************************************)
EXTENDS Integers, Sequences, FiniteSets, TLC

\* ---------------------------------------------------------------- bounds
MaxObs   == 2        \* native watchers created over a run
MaxNotif == 2        \* notifications the native layer produces over a run

\* the threads that invoke set_notes_root
Callers  == {"c1", "c2"}
\* the thread of main: it runs the setup hook, then the application
MainThread == "main"
Threads  == Callers \cup {MainThread}
ObsIds   == 1..MaxObs
NoObs    == 0        \* Option::None for a guard, a watcher or a thread handle
NoCaller == "nobody" \* the mutex is free

\* ---------------------------------------------------------------- inputs
\* Command paths are sequences of characters; " " and "\t" are white space.
Paths == { <<>>, <<" ">>, <<" ", "\t">>, <<"a">>, <<" ", "b">> }

IsWhitespace(ch) == ch \in {" ", "\t"}

RECURSIVE TrimStart(_)
TrimStart(s) ==
    IF s = <<>> THEN s
    ELSE IF IsWhitespace(Head(s)) THEN TrimStart(Tail(s)) ELSE s

RECURSIVE TrimEnd(_)
TrimEnd(s) ==
    IF s = <<>> THEN s
    ELSE IF IsWhitespace(s[Len(s)]) THEN TrimEnd(SubSeq(s, 1, Len(s) - 1)) ELSE s

\* str::trim
Trim(s) == TrimEnd(TrimStart(s))

\* a test that forgets to trim
PathIsBlankNoTrim(path) == path = <<>>

\* the test of set_notes_root: path.trim().is_empty()
PathIsBlank(path) == Trim(path) = <<>>

\* std::env::var("NOTES_ROOT"): Err when the variable is not set (no path is
\* this one-element sequence), or its value
NoEnv == <<"unset">>
EnvValues == {NoEnv} \cup Paths

\* What the native layer sends: Ok(event) with the event's paths, or Err(err).
\* A path is its text, a sequence of characters, and whether it is valid UTF-8
\* (Path::to_str); the text of a path that is not is its lossy rendering.
PathA   == [text |-> <<"/", "x">>, utf8 |-> TRUE]
PathB   == [text |-> <<"/", "y">>, utf8 |-> TRUE]
PathRaw == [text |-> <<"/", "?">>, utf8 |-> FALSE]

\* The Display text of a notify error names the paths it is about in Debug
\* format, that is between double quotes:  io about ["/x"]  (shortened here).
ErrText == <<"i", "o", "[", "\"", "/", "x", "\"", "]">>

NativeResults ==
    { [tag |-> "Ok",  paths |-> <<PathB, PathRaw, PathA>>, msg |-> <<>>],
      [tag |-> "Err", paths |-> <<>>, msg |-> ErrText] }

NoResult == [tag |-> "None", paths |-> <<>>, msg |-> <<>>]
NoNotif  == [seq |-> 0, res |-> NoResult]

\* ---------------------------------------------------------------- state
VARIABLES
    lockHolder,  \* NotesWatcherState.inner: the caller that holds the mutex
    poisoned,    \* the mutex was poisoned by a panic of its holder
    inner,       \* NotesWatcherState.inner: the guard in the slot, or NoObs
    guards,      \* WatcherGuard structs: root, watcher, thread
    native,      \* RecommendedWatcher objects and their watch registration
    chan,        \* mpsc channel of each watcher: queued notifications
    thr,         \* forwarding thread of each watcher and what it holds
    sink,        \* app_handle.emit calls, in order
    produced,    \* every notification sent on each channel, in order
    notifCount,  \* notifications produced so far
    nextId,      \* next watcher identity
    pc, arg, existing, fresh, stopRet, unwatchRes,   \* per thread
    returned     \* the result of the last command that returned

vars == << lockHolder, poisoned, inner, guards, native, chan, thr, sink,
           produced, notifCount, nextId,
           pc, arg, existing, fresh, stopRet, unwatchRes, returned >>

callerVars == << pc, arg, existing, fresh, stopRet, unwatchRes, returned >>
eventVars  == << chan, thr, sink, produced, notifCount >>

NoGuard  == [root |-> <<>>, watcher |-> NoObs, thread |-> NoObs]
NoNative == [alive |-> FALSE, reg |-> "never", txOpen |-> FALSE]
NoThread == [state |-> "none", cur |-> NoNotif]

\* NotesWatcherState::default() and what is around it, before any thread runs
InitState ==
    /\ lockHolder = NoCaller
    /\ poisoned = FALSE
    /\ inner = NoObs
    /\ guards = [i \in ObsIds |-> NoGuard]
    /\ native = [i \in ObsIds |-> NoNative]
    /\ chan = [i \in ObsIds |-> <<>>]
    /\ thr = [i \in ObsIds |-> NoThread]
    /\ sink = <<>>
    /\ produced = [i \in ObsIds |-> <<>>]
    /\ notifCount = 0
    /\ nextId = 1
    /\ arg = [c \in Threads |-> <<>>]
    /\ existing = [c \in Threads |-> NoObs]
    /\ fresh = [c \in Threads |-> NoObs]
    /\ stopRet = [c \in Threads |-> "none"]
    /\ unwatchRes = [c \in Threads |-> "none"]
    /\ returned = "none"

\* the application runs with an empty slot (NOTES_ROOT was not set) and its
\* window invokes commands
Init ==
    /\ InitState
    /\ pc = [c \in Threads |-> IF c = MainThread THEN "running" ELSE "idle"]

\* ------------------------------------------------------- set_notes_root
\* a setup hook that fails when its set_root call fails
AfterCallFatal(c, res) ==
    IF c # MainThread THEN "idle"
    ELSE IF res = "Ok" THEN "setup_done" ELSE "setup_failed"

\* where a thread goes on after set_root: a command is over; the setup hook
\* discards the result (let _ = state.set_root(..)) and goes to its Ok(()),
\* only a panic ends it
AfterCall(c, res) ==
    IF c # MainThread THEN "idle"
    ELSE IF res = "Panic" THEN "panicked" ELSE "setup_done"

\* set_root returns res and its locals end; the memory of the guard it
\* replaced and dropped is gone
Return(c, res) ==
    /\ pc' = [pc EXCEPT ![c] = AfterCall(c, res)]
    /\ returned' = res
    /\ arg' = [arg EXCEPT ![c] = <<>>]
    /\ existing' = [existing EXCEPT ![c] = NoObs]
    /\ fresh' = [fresh EXCEPT ![c] = NoObs]
    /\ stopRet' = [stopRet EXCEPT ![c] = "none"]
    /\ unwatchRes' = [unwatchRes EXCEPT ![c] = "none"]
    /\ guards' = IF existing[c] # NoObs
                 THEN [guards EXCEPT ![existing[c]] = NoGuard]
                 ELSE guards

\* set_notes_root: a blank path is rejected before set_root is reached
SetNotesRoot(c, path) ==
    /\ pc[c] = "idle"
    /\ IF PathIsBlank(path)
       THEN /\ returned' = "ErrPathEmpty"
            /\ UNCHANGED << pc, arg >>
       ELSE /\ pc' = [pc EXCEPT ![c] = "lock"]
            /\ arg' = [arg EXCEPT ![c] = path]
            /\ UNCHANGED returned
    /\ UNCHANGED << lockHolder, poisoned, inner, guards, native, eventVars,
                    nextId, existing, fresh, stopRet, unwatchRes >>

\* ------------------------------------------------- NotesWatcherState::set_root
\* a lock that does not wait for its holder
LockNoWait == TRUE

\* Mutex::lock blocks while another caller holds the mutex
LockAvailable == lockHolder = NoCaller

\* self.inner.lock().map_err(..)? : a poisoned mutex is an error
Lock(c) ==
    /\ pc[c] = "lock"
    /\ LockAvailable
    /\ IF poisoned
       THEN /\ Return(c, "ErrLock")
            /\ UNCHANGED lockHolder
       ELSE /\ lockHolder' = c
            /\ pc' = [pc EXCEPT ![c] = "take"]
            /\ UNCHANGED << guards, arg, existing, fresh, stopRet, unwatchRes,
                            returned >>
    /\ UNCHANGED << poisoned, inner, native, eventVars, nextId >>

\* a slot that keeps its guard while the guard is stopped
TakenSlotKept == inner

\* Option::take leaves None in the slot
TakenSlot == NoObs

\* a replacement that never stops the guard it replaces
TakeNextPcNoStop(g) == "new"

\* if let Some(mut existing) = .. { existing.stop(); }
TakeNextPc(g) == IF g # NoObs THEN "stop_watcher" ELSE "new"

\* a set_root that returns at once when the slot already watches the root
TakeSkipSame(c) ==
    /\ pc[c] = "take"
    /\ IF inner # NoObs /\ guards[inner].root = arg[c]
       THEN /\ Return(c, "Ok")
            /\ lockHolder' = NoCaller
            /\ UNCHANGED inner
       ELSE /\ existing' = [existing EXCEPT ![c] = inner]
            /\ inner' = TakenSlot
            /\ pc' = [pc EXCEPT ![c] = TakeNextPc(inner)]
            /\ stopRet' = [stopRet EXCEPT ![c] =
                             IF inner # NoObs THEN "drop_existing" ELSE @]
            /\ UNCHANGED << lockHolder, guards, arg, fresh, unwatchRes, returned >>
    /\ UNCHANGED << poisoned, native, eventVars, nextId >>

\* if let Some(mut existing) = guard.take()
Take(c) ==
    /\ pc[c] = "take"
    /\ existing' = [existing EXCEPT ![c] = inner]
    /\ inner' = TakenSlot
    /\ pc' = [pc EXCEPT ![c] = TakeNextPc(inner)]
    /\ stopRet' = [stopRet EXCEPT ![c] = IF inner # NoObs THEN "drop_existing" ELSE @]
    /\ UNCHANGED << lockHolder, poisoned, guards, native, eventVars, nextId,
                    arg, fresh, unwatchRes, returned >>

\* --------------------------------------------------------- WatcherGuard::stop
\* a watcher that is kept alive after it was taken out of its guard
ReleasedNever(n) == n

\* dropping a RecommendedWatcher releases its watches and shuts its event loop
\* down; the event loop drops the sender when it ends (NativeShutdown)
Released(n) == [n EXCEPT !.alive = FALSE,
                         !.reg = IF n.reg = "never" THEN "never" ELSE "removed"]

\* a stop that gives up when unwatch fails
UnwatchNextPcAbort(c, ok) == IF ok THEN "stop_release" ELSE stopRet[c]

\* let _ = watcher.unwatch(..): the result is discarded, stop goes on
UnwatchNextPc(c, ok) == "stop_release"

\* a stop that borrows the watcher and leaves it in the guard
TakenWatcherKept(g) == g

\* self.watcher.take() leaves None in the guard
TakenWatcher(g) == NoObs

\* if let Some(mut watcher) = self.watcher.take() { let _ = watcher.unwatch(..) }
\* unwatch fails on a watch the operating system has already removed
StopWatcher(c) ==
    /\ pc[c] = "stop_watcher"
    /\ LET g == existing[c] IN
       IF guards[g].watcher # NoObs
       THEN /\ guards' = [guards EXCEPT ![g].watcher = TakenWatcher(g)]
            /\ \E ok \in BOOLEAN :
                 /\ native[g].reg = "gone" => ~ok
                 /\ native' = [native EXCEPT ![g].reg = IF ok THEN "removed" ELSE @]
                 /\ unwatchRes' = [unwatchRes EXCEPT ![c] = IF ok THEN "ok" ELSE "err"]
                 /\ pc' = [pc EXCEPT ![c] = UnwatchNextPc(c, ok)]
       ELSE /\ pc' = [pc EXCEPT ![c] = "stop_join"]
            /\ UNCHANGED << guards, native, unwatchRes >>
    /\ UNCHANGED << lockHolder, poisoned, inner, eventVars, nextId, arg,
                    existing, fresh, stopRet, returned >>

\* the end of the if-let block drops the watcher taken out of the guard
StopRelease(c) ==
    /\ pc[c] = "stop_release"
    /\ native' = [native EXCEPT ![existing[c]] = Released(@)]
    /\ pc' = [pc EXCEPT ![c] = "stop_join"]
    /\ UNCHANGED << lockHolder, poisoned, inner, guards, eventVars, nextId, arg,
                    existing, fresh, stopRet, unwatchRes, returned >>

\* a join that does not wait
JoinedNoWait(g) == TRUE

\* JoinHandle::join returns once the thread has finished
Joined(g) == thr[g].state = "exited"

\* if let Some(handle) = self.thread.take() { let _ = handle.join() }
StopJoin(c) ==
    /\ pc[c] = "stop_join"
    /\ LET g == existing[c] IN
       IF guards[g].thread # NoObs
       THEN /\ Joined(g)
            /\ guards' = [guards EXCEPT ![g].thread = NoObs]
       ELSE UNCHANGED guards
    /\ pc' = [pc EXCEPT ![c] = stopRet[c]]
    /\ UNCHANGED << lockHolder, poisoned, inner, native, eventVars, nextId, arg,
                    existing, fresh, stopRet, unwatchRes, returned >>

\* Drop for WatcherGuard at the end of the if-let block of set_root: stop again
DropExisting(c) ==
    /\ pc[c] = "drop_existing"
    /\ pc' = [pc EXCEPT ![c] = "stop_watcher"]
    /\ stopRet' = [stopRet EXCEPT ![c] = "new"]
    /\ UNCHANGED << lockHolder, poisoned, inner, guards, native, eventVars,
                    nextId, arg, existing, fresh, unwatchRes, returned >>

\* ------------------------------------------------------------ spawn_fs_watcher
\* RecommendedWatcher::new(tx, ..)? : the channel and the watcher, or an error
\* (the native layer has watchers for MaxObs creations, then it is exhausted)
NewWatcher(c) ==
    /\ pc[c] = "new"
    /\ \E ok \in BOOLEAN :
         IF ok
         THEN /\ nextId <= MaxObs
              /\ native' = [native EXCEPT ![nextId] =
                              [alive |-> TRUE, reg |-> "never", txOpen |-> TRUE]]
              /\ fresh' = [fresh EXCEPT ![c] = nextId]
              /\ nextId' = nextId + 1
              /\ pc' = [pc EXCEPT ![c] = "watch"]
              /\ UNCHANGED << lockHolder, guards, arg, existing, stopRet,
                              unwatchRes, returned >>
         ELSE /\ Return(c, "ErrInitNew")
              /\ lockHolder' = NoCaller
              /\ UNCHANGED << native, nextId >>
    /\ UNCHANGED << poisoned, inner, eventVars >>

\* a failed start that leaves its watcher behind
DiscardedLeaked(n) == n

\* a watcher and its receiver dropped before any thread owns the receiver
Discarded(n) == [Released(n) EXCEPT !.txOpen = FALSE]

\* watcher.watch(root, Recursive)? : the root is watched, or it cannot be
WatchRoot(c) ==
    /\ pc[c] = "watch"
    /\ \E ok \in BOOLEAN :
         IF ok
         THEN /\ native' = [native EXCEPT ![fresh[c]].reg = "yes"]
              /\ pc' = [pc EXCEPT ![c] = "spawn"]
              /\ UNCHANGED << lockHolder, guards, arg, existing, fresh, stopRet,
                              unwatchRes, returned >>
         ELSE /\ native' = [native EXCEPT ![fresh[c]] = Discarded(@)]
              /\ Return(c, "ErrInitWatch")
              /\ lockHolder' = NoCaller
    /\ UNCHANGED << poisoned, inner, eventVars, nextId >>

\* std::thread::spawn(move || ..) and Ok(WatcherGuard { root, watcher, thread })
SpawnThread(c) ==
    /\ pc[c] = "spawn"
    /\ thr' = [thr EXCEPT ![fresh[c]].state = "running"]
    /\ guards' = [guards EXCEPT ![fresh[c]] =
                    [root |-> arg[c], watcher |-> fresh[c], thread |-> fresh[c]]]
    /\ pc' = [pc EXCEPT ![c] = "store"]
    /\ UNCHANGED << lockHolder, poisoned, inner, native, chan, sink, produced,
                    notifCount, nextId, arg, existing, fresh, stopRet,
                    unwatchRes, returned >>

\* std::thread::spawn panics when the OS cannot create a thread: the unwinding
\* drops the watcher and the receiver, and the MutexGuard poisons the mutex
SpawnPanic(c) ==
    /\ pc[c] = "spawn"
    /\ native' = [native EXCEPT ![fresh[c]] = Discarded(@)]
    /\ chan' = [chan EXCEPT ![fresh[c]] = <<>>]
    /\ poisoned' = TRUE
    /\ lockHolder' = NoCaller
    /\ Return(c, "Panic")
    /\ UNCHANGED << inner, thr, sink, produced, notifCount, nextId >>

\* a set_root that forgets the guard it has started
StoredSlotForgotten(c) == NoObs

\* *guard = Some(watcher)
StoredSlot(c) == fresh[c]

\* *guard = Some(watcher); Ok(())  -- the MutexGuard is dropped on return
Store(c) ==
    /\ pc[c] = "store"
    /\ inner' = StoredSlot(c)
    /\ lockHolder' = NoCaller
    /\ Return(c, "Ok")
    /\ UNCHANGED << poisoned, native, eventVars, nextId >>

\* ------------------------------------------------- the forwarding thread
\* filter_map(|path| path.to_str().map(..)).collect::<Vec<String>>()
RECURSIVE Utf8Texts(_)
Utf8Texts(paths) ==
    IF paths = <<>> THEN <<>>
    ELSE (IF Head(paths).utf8 THEN <<Head(paths).text>> ELSE <<>>)
         \o Utf8Texts(Tail(paths))

\* serde_json writes a string between double quotes and escapes the double
\* quotes and backslashes in it
RECURSIVE JsonEscape(_)
JsonEscape(t) ==
    IF t = <<>> THEN <<>>
    ELSE (IF Head(t) \in {"\"", "\\"} THEN <<"\\", Head(t)>> ELSE <<Head(t)>>)
         \o JsonEscape(Tail(t))

JsonString(t) == <<"\"">> \o JsonEscape(t) \o <<"\"">>

RECURSIVE JsonItems(_)
JsonItems(texts) ==
    IF texts = <<>> THEN <<>>
    ELSE JsonString(Head(texts))
         \o (IF Tail(texts) = <<>> THEN <<>> ELSE <<",">>)
         \o JsonItems(Tail(texts))

\* serde_json::to_string(&Vec<String>)  (it cannot fail on strings, the
\* unwrap_or_else branch is never taken)
JsonArray(texts) == <<"[">> \o JsonItems(texts) \o <<"]">>

\* format!(r#"{{"error":"{}"}}"#, err): the Display text of the error is
\* pasted between the quotes as it is
ErrorFormat(msg) ==
    <<"{", "\"", "e", "r", "r", "o", "r", "\"", ":", "\"">> \o msg \o <<"\"", "}">>

\* the payload of one notification, a text
Payload(res) ==
    IF res.tag = "Ok"
    THEN JsonArray(Utf8Texts(res.paths))
    ELSE ErrorFormat(res.msg)

Topic == "notes://fs"

\* a receiver that hands out the newest notification first
RecvNewest(q) == [item |-> q[Len(q)], rest |-> SubSeq(q, 1, Len(q) - 1)]

\* Receiver::recv: the oldest queued notification
Recv(q) == [item |-> Head(q), rest |-> Tail(q)]

\* a receiver that reports the end as soon as every sender is gone
ChannelDoneOnClose(i) == ~native[i].txOpen

\* Receiver::recv fails, and the for loop ends, once the channel is empty and
\* every sender is gone
ChannelDone(i) == chan[i] = <<>> /\ ~native[i].txOpen

\* a thread that empties the slot of its observation when its loop ends
SlotAfterExitCleared(i) == IF inner = i THEN NoObs ELSE inner

\* the closure of the thread owns rx and app_handle, not the state: the end
\* of its loop leaves the slot as it is
SlotAfterExit(i) == inner

\* for result in rx : the next queued notification, or the end of the loop
ThreadRecv(i) ==
    /\ thr[i].state = "running"
    /\ IF ChannelDone(i)
       THEN /\ thr' = [thr EXCEPT ![i].state = "exited"]
            /\ inner' = SlotAfterExit(i)
            /\ UNCHANGED chan
       ELSE /\ chan[i] # <<>>
            /\ thr' = [thr EXCEPT ![i] = [state |-> "holding", cur |-> Recv(chan[i]).item]]
            /\ chan' = [chan EXCEPT ![i] = Recv(@).rest]
            /\ UNCHANGED inner
    /\ UNCHANGED << lockHolder, poisoned, guards, native, sink, produced,
                    notifCount, nextId, callerVars >>

\* a loop that ends on an error notification
AfterEmitBreakOnErr(res, ok) == IF res.tag = "Err" THEN "exited" ELSE "running"

\* what the loop does after an emission, failed or not: it goes on with the
\* next notification
AfterEmit(res, ok) == "running"

\* let _ = app_handle.emit("notes://fs", payload): the emission may fail (ok),
\* its result is discarded
ThreadEmit(i) ==
    /\ thr[i].state = "holding"
    /\ sink' = Append(sink, [topic |-> Topic, obs |-> i, seq |-> thr[i].cur.seq,
                             payload |-> Payload(thr[i].cur.res)])
    /\ \E ok \in BOOLEAN :
         thr' = [thr EXCEPT ![i] = [state |-> AfterEmit(thr[i].cur.res, ok),
                                    cur |-> NoNotif]]
    /\ UNCHANGED << lockHolder, poisoned, inner, guards, native, chan, produced,
                    notifCount, nextId, callerVars >>

\* ------------------------------------------------- the native layer
\* the event loop of a watcher sends a notification on its channel
Notify(i, res) ==
    /\ native[i].txOpen
    /\ native[i].reg # "never"
    /\ notifCount < MaxNotif
    /\ notifCount' = notifCount + 1
    /\ chan' = [chan EXCEPT ![i] = Append(@, [seq |-> notifCount + 1, res |-> res])]
    /\ produced' = [produced EXCEPT ![i] = Append(@, [seq |-> notifCount + 1, res |-> res])]
    /\ UNCHANGED << lockHolder, poisoned, inner, guards, native, thr, sink,
                    nextId, callerVars >>

\* the event loop of a dropped watcher ends and drops the sender
NativeShutdown(i) ==
    /\ ~native[i].alive
    /\ native[i].txOpen
    /\ native' = [native EXCEPT ![i].txOpen = FALSE]
    /\ UNCHANGED << lockHolder, poisoned, inner, guards, eventVars, nextId,
                    callerVars >>

\* the native layer closes the channel of a live watcher on its own
NativeClose(i) ==
    /\ native[i].alive
    /\ native[i].txOpen
    /\ native[i].reg # "never"
    /\ native' = [native EXCEPT ![i].txOpen = FALSE]
    /\ UNCHANGED << lockHolder, poisoned, inner, guards, eventVars, nextId,
                    callerVars >>

\* the watched root is deleted externally: the operating system removes the
\* watch, the watcher still lists it
DeleteRoot(i) ==
    /\ native[i].alive
    /\ native[i].reg = "yes"
    /\ native' = [native EXCEPT ![i].reg = "gone"]
    /\ UNCHANGED << lockHolder, poisoned, inner, guards, eventVars, nextId,
                    callerVars >>

\* ------------------------------------------------- main
\* the setup hook: without the WebView2 runtime (Windows builds) it fails
\* before it reads NOTES_ROOT; a value that is set and not blank goes to
\* set_root as it is
Setup(env, runtimeOk) ==
    /\ pc[MainThread] = "setup"
    /\ IF ~runtimeOk
       THEN /\ pc' = [pc EXCEPT ![MainThread] = "setup_failed"]
            /\ UNCHANGED arg
       ELSE IF env # NoEnv /\ ~PathIsBlank(env)
       THEN /\ pc' = [pc EXCEPT ![MainThread] = "lock"]
            /\ arg' = [arg EXCEPT ![MainThread] = env]
       ELSE /\ pc' = [pc EXCEPT ![MainThread] = "setup_done"]
            /\ UNCHANGED arg
    /\ UNCHANGED << lockHolder, poisoned, inner, guards, native, eventVars,
                    nextId, existing, fresh, stopRet, unwatchRes, returned >>

\* Ok(()) of the setup hook: run goes on, the window can invoke commands
RunApp ==
    /\ pc[MainThread] = "setup_done"
    /\ pc' = [c \in Threads |-> IF c = MainThread THEN "running" ELSE "idle"]
    /\ UNCHANGED << lockHolder, poisoned, inner, guards, native, eventVars,
                    nextId, arg, existing, fresh, stopRet, unwatchRes, returned >>

\* what the end of the process does to a watcher and to a thread that were
\* never stopped
Reclaimed(n) == [alive |-> FALSE, reg |-> n.reg, txOpen |-> FALSE]
Killed(t) == IF t.state \in {"running", "holding"}
             THEN [state |-> "killed", cur |-> NoNotif] ELSE t

\* The application ends while no command runs.  main.rs registers nothing for
\* the exit: either the run loop leaves through std::process::exit and the
\* managed state is never dropped (the process ends with the watcher and the
\* thread as they are), or the state is dropped and Drop for WatcherGuard
\* stops the guard in the slot, if there is one.
ExitApp(dropped) ==
    /\ pc[MainThread] = "running"
    /\ \A c \in Callers : pc[c] = "idle"
    /\ IF dropped /\ inner # NoObs
       THEN /\ pc' = [c \in Threads |->
                        IF c = MainThread THEN "stop_watcher" ELSE "ended"]
            /\ existing' = [existing EXCEPT ![MainThread] = inner]
            /\ stopRet' = [stopRet EXCEPT ![MainThread] = "exited"]
            /\ inner' = NoObs
            /\ UNCHANGED << native, thr >>
       ELSE /\ pc' = [c \in Threads |->
                        IF c = MainThread THEN "exited" ELSE "ended"]
            /\ native' = [i \in ObsIds |->
                            IF dropped THEN native[i] ELSE Reclaimed(native[i])]
            /\ thr' = [i \in ObsIds |->
                         IF dropped THEN thr[i] ELSE Killed(thr[i])]
            /\ UNCHANGED << existing, stopRet, inner >>
    /\ UNCHANGED << lockHolder, poisoned, guards, chan, sink, produced,
                    notifCount, nextId, arg, fresh, unwatchRes, returned >>

\* ------------------------------------------------- specification
Next ==
    \/ \E c \in Callers, path \in Paths : SetNotesRoot(c, path)
    \/ \E c \in Callers : Lock(c)
    \/ \E c \in Callers : Take(c)
    \/ \E c \in Callers : StopWatcher(c)
    \/ \E c \in Callers : StopRelease(c)
    \/ \E c \in Callers : StopJoin(c)
    \/ \E c \in Callers : DropExisting(c)
    \/ \E c \in Callers : NewWatcher(c)
    \/ \E c \in Callers : WatchRoot(c)
    \/ \E c \in Callers : SpawnThread(c)
    \/ \E c \in Callers : SpawnPanic(c)
    \/ \E c \in Callers : Store(c)
    \/ \E i \in ObsIds : ThreadRecv(i)
    \/ \E i \in ObsIds : ThreadEmit(i)
    \/ \E i \in ObsIds, res \in NativeResults : Notify(i, res)
    \/ \E i \in ObsIds : NativeShutdown(i)
    \/ \E i \in ObsIds : NativeClose(i)
    \/ \E i \in ObsIds : DeleteRoot(i)

Spec == Init /\ [][Next]_vars

\* ------------------------------------- specification of one process run
\* from the start of main to the end of the process; one window thread
\* invokes commands while the application runs
InitMain ==
    /\ InitState
    /\ pc = [c \in Threads |-> IF c = MainThread THEN "setup" ELSE "unstarted"]

MainCallers == {"c1"}
MainThreads == MainCallers \cup {MainThread}

NextMain ==
    \/ \E env \in EnvValues, runtimeOk \in BOOLEAN : Setup(env, runtimeOk)
    \/ RunApp
    \/ \E dropped \in BOOLEAN : ExitApp(dropped)
    \/ \E c \in MainCallers, path \in Paths : SetNotesRoot(c, path)
    \/ \E c \in MainThreads : Lock(c)
    \/ \E c \in MainThreads : Take(c)
    \/ \E c \in MainThreads : StopWatcher(c)
    \/ \E c \in MainThreads : StopRelease(c)
    \/ \E c \in MainThreads : StopJoin(c)
    \/ \E c \in MainCallers : DropExisting(c)
    \/ \E c \in MainThreads : NewWatcher(c)
    \/ \E c \in MainThreads : WatchRoot(c)
    \/ \E c \in MainThreads : SpawnThread(c)
    \/ \E c \in MainThreads : SpawnPanic(c)
    \/ \E c \in MainThreads : Store(c)
    \/ \E i \in ObsIds : ThreadRecv(i)
    \/ \E i \in ObsIds : ThreadEmit(i)
    \/ \E i \in ObsIds, res \in NativeResults : Notify(i, res)
    \/ \E i \in ObsIds : NativeShutdown(i)
    \/ \E i \in ObsIds : NativeClose(i)
    \/ \E i \in ObsIds : DeleteRoot(i)

SpecMain == InitMain /\ [][NextMain]_vars

\* ------------------------------------------------- properties
ThreadAlive(i) == thr[i].state \in {"running", "holding"}
WatchRegistered(i) == native[i].alive /\ native[i].reg \in {"yes", "gone"}
Created(i) == i < nextId

\* the stop of guard g has finished: both handles are taken, the watcher is
\* released and the thread has ended
Stopped(g) ==
    /\ guards[g].watcher = NoObs
    /\ guards[g].thread = NoObs
    /\ ~native[g].alive
    /\ native[g].reg = "removed"
    /\ thr[g].state = "exited"

\* the steps of set_root between lock() and its return
InSetRoot == { "take", "stop_watcher", "stop_release", "stop_join",
               "drop_existing", "new", "watch", "spawn", "store" }
\* the steps of set_root after the replaced guard has been stopped and dropped
AfterReplace == { "new", "watch", "spawn", "store" }

\* C1: at any instant at most one forwarding thread is alive and at most one
\* native watch is registered, and once a later watcher has been created every
\* earlier watcher is released and its thread has ended.
C1_AtMostOneObserver ==
    \A i \in ObsIds : \A j \in ObsIds :
        i < j =>
          /\ ~(ThreadAlive(i) /\ ThreadAlive(j))
          /\ ~(WatchRegistered(i) /\ WatchRegistered(j))
          /\ Created(j) => (~ThreadAlive(i) /\ ~native[i].alive)

\* a second observation runs after the first one was replaced, while another
\* caller waits for the mutex
C1_Witness ==
    /\ thr[1].state = "exited"
    /\ ThreadAlive(2)
    /\ WatchRegistered(2)
    /\ \E c \in Callers : pc[c] = "lock"

\* C2: the emissions in the sink are grouped by observation in the order the
\* observations were created, and an observation that has been replaced (a
\* later watcher exists) holds and queues nothing that could still be emitted.
C2_NoCrossing ==
    /\ \A k \in 1..Len(sink) : \A l \in 1..Len(sink) :
          k < l => sink[k].obs <= sink[l].obs
    /\ \A i \in ObsIds :
          (Created(i + 1) /\ thr[i].state # "none") =>
             /\ thr[i].state = "exited"
             /\ thr[i].cur = NoNotif
             /\ chan[i] = <<>>

\* an event of the first observation and an event of its replacement are both
\* in the sink, and the replacing call has returned
C2_Witness ==
    /\ Len(sink) = 2
    /\ sink[1].obs = 1
    /\ sink[2].obs = 2
    /\ inner = 2
    /\ returned = "Ok"

\* a path that is empty or made of white space only
BlankInput(path) == \A k \in 1..Len(path) : path[k] \in {" ", "\t"}

\* C3: a set_notes_root call with an empty or white-space-only path returns
\* the empty-path error and changes nothing else: the slot, the guards, the
\* watchers, the threads, the channels and the mutex stay as they are.
C3_BlankPathRejected ==
    [][ \A c \in Callers : \A path \in Paths :
          (BlankInput(path) /\ SetNotesRoot(c, path)) =>
             /\ returned' = "ErrPathEmpty"
             /\ UNCHANGED << lockHolder, poisoned, inner, guards, native, chan,
                             thr, sink, produced, nextId, pc, existing, fresh >>
      ]_vars

\* a blank path was rejected while an observation is running
C3_Witness ==
    /\ returned = "ErrPathEmpty"
    /\ inner # NoObs
    /\ ThreadAlive(inner)
    /\ WatchRegistered(inner)
    /\ lockHolder = NoCaller

\* C4: when the start of the new observer fails (the watcher cannot be created
\* or the root cannot be watched) set_root ends at once: the caller gets the
\* error, the mutex is released, the slot is empty and no further watcher is
\* created; and until another call takes the mutex the slot stays empty with no
\* thread and no watcher alive (the replaced observation is not restored).
C4_FailedStartLeavesEmpty ==
    /\ []((returned \in {"ErrInitNew", "ErrInitWatch"} /\ lockHolder = NoCaller)
            => /\ inner = NoObs
               /\ \A i \in ObsIds : ~ThreadAlive(i) /\ ~native[i].alive)
    /\ [][ \A c \in Callers :
             (pc[c] \in {"new", "watch"} /\ pc'[c] \notin {"new", "watch", "spawn"}) =>
                /\ pc'[c] = "idle"
                /\ returned' = IF pc[c] = "new" THEN "ErrInitNew" ELSE "ErrInitWatch"
                /\ inner' = NoObs
                /\ lockHolder' = NoCaller
                /\ nextId' = nextId
                /\ thr' = thr ]_vars

\* the start failed after a running observation had been stopped
C4_Witness ==
    /\ returned = "ErrInitWatch"
    /\ lockHolder = NoCaller
    /\ thr[1].state = "exited"
    /\ inner = NoObs

\* C5: at most one caller is between lock() and the return of set_root, that
\* caller holds the mutex, a caller that finds the mutex held stays at lock(),
\* and lock() fails only on a poisoned mutex.
C5_MutualExclusion ==
    /\ [](/\ Cardinality({ c \in Callers : pc[c] \in InSetRoot }) <= 1
          /\ \A c \in Callers : pc[c] \in InSetRoot => lockHolder = c
          /\ returned = "ErrLock" => poisoned)
    /\ [][ \A c \in Callers :
             (pc[c] = "lock" /\ lockHolder # NoCaller) => pc'[c] = "lock" ]_vars

\* one caller is stopping the old observation while the other waits at lock()
C5_Witness ==
    \E c \in Callers : \E d \in Callers :
        /\ pc[c] = "stop_join"
        /\ pc[d] = "lock"

\* the notifications of observation i that were emitted, as the sink lists them
RECURSIVE EmittedBy(_, _)
EmittedBy(i, log) ==
    IF log = <<>> THEN <<>>
    ELSE (IF Head(log).obs = i THEN <<Head(log)>> ELSE <<>>) \o EmittedBy(i, Tail(log))

\* C6: the emissions of one observation are, one for one and in the same
\* order, the first notifications the native layer sent on its channel: the
\* k-th emission carries the k-th notification.
C6_EmittedInChannelOrder ==
    \A i \in ObsIds :
        LET e == EmittedBy(i, sink) IN
        /\ Len(e) <= Len(produced[i])
        /\ \A k \in 1..Len(e) : e[k].seq = produced[i][k].seq

\* two notifications of one observation were queued together and both emitted
C6_Witness ==
    \E i \in ObsIds :
        /\ Len(EmittedBy(i, sink)) = 2
        /\ sink[1].seq = 1
        /\ sink[2].seq = 2
        /\ thr[i].state = "running"

\* the payload of an error notification: the text {"error":"<message>"}
ErrorPayload(msg) ==
    <<"{", "\"", "e", "r", "r", "o", "r", "\"", ":", "\"">> \o msg \o <<"\"", "}">>

\* an emission that reports an error, an emission that lists paths
IsErrorEvent(e) == e.payload[1] = "{"
IsPathsEvent(e) == e.payload[1] = "["

\* C7: the emission of an error notification appends the error payload, the
\* text {"error":"<message>"} around the message as it is, to the sink and
\* leaves the thread in its loop, the slot, the guards and the watchers as
\* they are; and a thread has left its loop only if every sender
\* of its channel is gone and the channel is empty.
C7_ErrorKeepsObserver ==
    /\ [](\A i \in ObsIds :
            thr[i].state = "exited" => (~native[i].txOpen /\ chan[i] = <<>>))
    /\ [][ \A i \in ObsIds :
             (thr[i].state = "holding" /\ thr[i].cur.res.tag = "Err"
                 /\ thr'[i] # thr[i]) =>
                /\ sink' = Append(sink, [topic |-> Topic, obs |-> i,
                                         seq |-> thr[i].cur.seq,
                                         payload |-> ErrorPayload(thr[i].cur.res.msg)])
                /\ thr'[i].state = "running"
                /\ UNCHANGED << inner, guards, native, lockHolder >> ]_vars

\* an error event was emitted and the same observation emitted a later event
C7_Witness ==
    /\ Len(sink) = 2
    /\ IsErrorEvent(sink[1])
    /\ sink[2].obs = sink[1].obs
    /\ IsPathsEvent(sink[2])
    /\ inner = sink[1].obs

\* C8: whenever the root of an observation was deleted while watched and the
\* forwarding thread of the observation has ended although stop was never
\* called on its guard, an error event of that observation is in the sink.
C8_NoSilentExit ==
    \A i \in ObsIds :
        (native[i].reg = "gone" /\ thr[i].state = "exited"
            /\ guards[i].watcher # NoObs) =>
            \E k \in 1..Len(sink) :
                sink[k].obs = i /\ IsErrorEvent(sink[k])

\* C9: when stop has returned, in set_root, the guard holds neither handle,
\* its watch is removed, its watcher is released and its thread has ended,
\* also when unwatch failed.
C9_StopSynchronous ==
    \A c \in Callers :
        (pc[c] \in AfterReplace \cup {"drop_existing"} /\ existing[c] # NoObs) =>
            Stopped(existing[c])

\* stop has returned although its unwatch failed
C9_Witness ==
    \E c \in Callers :
        /\ pc[c] = "drop_existing"
        /\ unwatchRes[c] = "err"
        /\ Stopped(existing[c])

\* a set_root call for the root the slot already watches
SameRootCall(c) ==
    \/ pc[c] = "take" /\ inner # NoObs /\ guards[inner].root = arg[c]
    \/ /\ pc[c] \in InSetRoot \ {"take"}
       /\ existing[c] # NoObs
       /\ guards[existing[c]].root = arg[c]

\* C10: a set_root call for the root the slot already watches replaces the
\* observation: the old guard is fully stopped before the new watcher is
\* created, the call returns only from the start of the new observer, and when
\* it returns from its last step it returns Ok with the new guard, which is
\* another one than the old, in the slot.
C10_SameRootReplaces ==
    /\ [](\A c \in Callers :
            (SameRootCall(c) /\ pc[c] \in AfterReplace) =>
               /\ Stopped(existing[c])
               /\ fresh[c] # existing[c]
               /\ pc[c] = "store" =>
                    /\ guards[fresh[c]].root = arg[c]
                    /\ guards[fresh[c]].watcher # NoObs
                    /\ guards[fresh[c]].thread # NoObs
                    /\ native[fresh[c]].alive
                    /\ thr[fresh[c]].state # "none")
    /\ [][ \A c \in Callers :
             (SameRootCall(c) /\ pc'[c] = "idle") =>
                /\ pc[c] \in AfterReplace
                /\ pc[c] = "store" =>
                     /\ returned' = "Ok"
                     /\ inner' = fresh[c]
                     /\ inner' # existing[c] ]_vars

\* the second call for the same root is about to return with the new guard
C10_Witness ==
    \E c \in Callers :
        /\ pc[c] = "store"
        /\ SameRootCall(c)
        /\ arg[c] = <<"a">>

\* ------------------------------------------------- the end of the process
\* C11: when the process has ended, every observation that was started has
\* been stopped and joined (its guard holds neither handle and its thread has
\* left its loop), and ending the process with an empty slot performs no
\* unwatch and no join.
C11_TeardownStopsAndJoins ==
    /\ [](pc[MainThread] = "exited" =>
            \A i \in ObsIds :
                thr[i].state # "none" =>
                    /\ guards[i].watcher = NoObs
                    /\ guards[i].thread = NoObs
                    /\ thr[i].state = "exited")
    /\ [][ (pc[MainThread] = "running" /\ pc'[MainThread] # "running"
               /\ inner = NoObs) =>
              /\ pc'[MainThread] = "exited"
              /\ guards' = guards ]_vars

\* ------------------------------------------------- the start of the process
\* C12: the process starts with an empty slot and no watcher.  When the setup
\* hook reads NOTES_ROOT (the runtime check before it has passed): a value
\* that is set and not blank makes the main thread call set_root with that
\* value, once, and whatever error the call returns the hook ends with Ok;
\* a variable that is not set or blank ends the hook at once, with no call,
\* the slot empty and no watcher created.
C12_StartupRoot ==
    /\ [](/\ pc[MainThread] = "setup" => (inner = NoObs /\ nextId = 1)
          /\ (pc[MainThread] = "setup_done" /\ returned = "none") =>
                (inner = NoObs /\ nextId = 1))
    /\ [][ /\ \A env \in EnvValues :
                Setup(env, TRUE) =>
                   IF env # NoEnv /\ ~BlankInput(env)
                   THEN pc'[MainThread] = "lock" /\ arg'[MainThread] = env
                   ELSE /\ pc'[MainThread] = "setup_done"
                        /\ UNCHANGED << inner, nextId, returned, native, thr >>
           /\ pc'[MainThread] = "lock" => pc[MainThread] \in {"setup", "lock"}
           /\ pc'[MainThread] = "setup" => pc[MainThread] = "setup"
           /\ (pc[MainThread] \in {"lock", "new", "watch", "store"}
                 /\ pc'[MainThread] \notin InSetRoot \cup {"lock"}) =>
                 /\ returned' \in {"ErrLock", "ErrInitNew", "ErrInitWatch", "Ok"}
                 /\ pc'[MainThread] = "setup_done" ]_vars

\* the set_root call of the setup hook failed and the hook ended with Ok
C12_Witness ==
    /\ pc[MainThread] = "setup_done"
    /\ returned = "ErrInitWatch"
    /\ inner = NoObs

\* ------------------------------------------------- the slot and the thread
\* C13, as stated: in every state, also inside set_root, an empty slot means
\* that no forwarding thread is alive.
C13_EmptySlotNoThread ==
    inner = NoObs => \A i \in ObsIds : ~ThreadAlive(i)

\* C13, amended: whenever no caller holds the mutex, an empty slot means that
\* no forwarding thread is alive and no watcher is live.
C13_EmptySlotNoThreadUnlocked ==
    (lockHolder = NoCaller /\ inner = NoObs) =>
        \A i \in ObsIds : ~ThreadAlive(i) /\ ~native[i].alive

\* the mutex is free and the slot is empty after an observation had run: its
\* thread was joined by the call that failed to start the next one
C13_Witness ==
    /\ lockHolder = NoCaller
    /\ inner = NoObs
    /\ thr[1].state = "exited"
    /\ Len(sink) >= 1

\* ------------------------------------------------- termination of set_root
\* the steps of thread c inside set_notes_root / set_root
CallerStep(c) ==
    \/ Lock(c) \/ Take(c) \/ StopWatcher(c) \/ StopRelease(c) \/ StopJoin(c)
    \/ DropExisting(c) \/ NewWatcher(c) \/ WatchRoot(c) \/ SpawnThread(c)
    \/ SpawnPanic(c) \/ Store(c)

\* Scheduling: a thread that can take a step of set_root takes it (its code
\* runs on), a caller that waits at lock() gets the mutex at one of the
\* moments it is free, the forwarding thread runs on, and the event loop of a
\* dropped watcher ends and drops the sender.
Fairness ==
    /\ \A c \in Callers :
          /\ SF_vars(Lock(c))
          /\ WF_vars(CallerStep(c))
    /\ \A i \in ObsIds :
          /\ WF_vars(ThreadRecv(i))
          /\ WF_vars(ThreadEmit(i))
          /\ WF_vars(NativeShutdown(i))

FairSpec == Spec /\ Fairness

\* C14: every set_root call ends (native unwatch returns): a caller that is
\* in set_notes_root past the blank test is eventually out of it; the mutex
\* is held by nobody when no caller is inside set_root; a caller at the join
\* has released the watcher of the guard it stops; and no step of a
\* forwarding thread touches the mutex.
C14_SetRootReturns ==
    /\ \A c \in Callers : (pc[c] # "idle") ~> (pc[c] = "idle")
    /\ []((\A c \in Callers : pc[c] \notin InSetRoot) => lockHolder = NoCaller)
    /\ [](\A c \in Callers :
            pc[c] = "stop_join" => ~native[existing[c]].alive)
    /\ [][ (\E i \in ObsIds : thr'[i] # thr[i]) =>
              UNCHANGED << lockHolder, poisoned >> ]_vars

\* a caller waits in the join for a thread that still holds a notification
C14_Witness ==
    \E c \in Callers :
        /\ pc[c] = "stop_join"
        /\ thr[existing[c]].state = "holding"
        /\ native[existing[c]].txOpen

\* ------------------------------------------------- the slot after a call
\* the results of a set_root call that had taken the mutex and then failed
StartFailed == {"ErrInitNew", "ErrInitWatch", "Panic"}

\* what was sent on the channel of observation i is what it has emitted, then
\* what its thread holds, then what is queued
Forwarded(i) ==
    LET e == EmittedBy(i, sink)
        seqs(q) == [k \in 1..Len(q) |-> q[k].seq]
    IN seqs(produced[i]) =
          seqs(e) \o (IF thr[i].cur = NoNotif THEN <<>> ELSE <<thr[i].cur.seq>>)
                  \o seqs(chan[i])

\* C15: whenever no caller holds the mutex, the slot is empty or holds the
\* guard of the watcher created last, with both handles, the watcher alive
\* with its watch in its list, the thread spawned, and nothing it was sent
\* lost; after a successful set_root the slot holds such a guard, after a
\* failed start it is empty.  A successful set_root returns with the mutex
\* released and the slot holding its new guard, whose root is the path it
\* was called with.
C15_SlotReflectsLastCall ==
    /\ [](lockHolder = NoCaller =>
            /\ inner # NoObs =>
                 /\ inner = nextId - 1
                 /\ guards[inner].watcher = inner
                 /\ guards[inner].thread = inner
                 /\ WatchRegistered(inner)
                 /\ thr[inner].state # "none"
                 /\ Forwarded(inner)
            /\ \A i \in ObsIds : (i # inner) => (~ThreadAlive(i) /\ ~native[i].alive)
            /\ returned = "Ok" => inner # NoObs
            /\ returned \in StartFailed => inner = NoObs)
    /\ [][ \A c \in Callers :
             (pc[c] = "store" /\ pc'[c] # "store") =>
                /\ returned' = "Ok"
                /\ lockHolder' = NoCaller
                /\ inner' = fresh[c]
                /\ guards'[inner'].root = arg[c]
                /\ thr'[inner'].state # "none"
                /\ native'[inner'].alive
                /\ native'[inner'].reg \in {"yes", "gone"} ]_vars

\* after a second successful call the slot holds the second guard, for the
\* root with the leading blank it was called with, and has forwarded an event
C15_Witness ==
    /\ lockHolder = NoCaller
    /\ returned = "Ok"
    /\ inner = 2
    /\ guards[2].root = <<" ", "b">>
    /\ Len(EmittedBy(2, sink)) = 1

\* ------------------------------------------------- nothing is lost
\* C16: for every watcher whose thread was spawned or is about to be (its
\* set_root call is still under way), what was sent on its channel is, in
\* order, what it has emitted, what its thread holds and what is queued, so
\* nothing is lost, also what was sent before the thread started; no
\* notification is emitted twice; and once the thread has ended, hence once
\* stop has returned, everything that was sent has been emitted.
C16_NothingLost ==
    /\ \A i \in ObsIds :
          /\ (thr[i].state # "none" \/ \E c \in Callers : fresh[c] = i) =>
                Forwarded(i)
          /\ thr[i].state = "exited" =>
                Len(EmittedBy(i, sink)) = Len(produced[i])
    /\ \A k \in 1..Len(sink) : \A l \in 1..Len(sink) :
          k # l => sink[k].seq # sink[l].seq
    /\ \A c \in Callers :
          (pc[c] \in AfterReplace \cup {"drop_existing"} /\ existing[c] # NoObs) =>
             Len(EmittedBy(existing[c], sink)) = Len(produced[existing[c]])

\* stop waits in the join: the watcher is released and the sender gone, one
\* notification is emitted and one is still queued
C16_Witness ==
    \E c \in Callers :
        /\ pc[c] = "stop_join"
        /\ ~native[existing[c]].txOpen
        /\ Len(chan[existing[c]]) = 1
        /\ Len(EmittedBy(existing[c], sink)) = 1

\* ------------------------------------------------- the payload
\* the texts of all the paths of an event, in their order
RECURSIVE AllTexts(_)
AllTexts(paths) ==
    IF paths = <<>> THEN <<>> ELSE <<Head(paths).text>> \o AllTexts(Tail(paths))

\* the JSON object {"error": <message>} with the message as a JSON string
ErrorObject(msg) ==
    <<"{", "\"", "e", "r", "r", "o", "r", "\"", ":">> \o JsonString(msg) \o <<"}">>

\* the notification of observation i with sequence number n
Sent(i, n) == CHOOSE m \in { produced[i][k] : k \in 1..Len(produced[i]) } : m.seq = n

\* C17: every emission is on the one topic, belongs to one notification sent
\* on the channel of its observation, no two emissions to the same one, and
\* carries the JSON array of all the paths of the event in their order, or
\* the JSON object with the error message; and the thread goes on with its
\* loop after every emission, also a failed one.
C17_PayloadOfNotification ==
    /\ [](/\ \A k \in 1..Len(sink) :
               /\ sink[k].topic = Topic
               /\ \E j \in 1..Len(produced[sink[k].obs]) :
                      produced[sink[k].obs][j].seq = sink[k].seq
               /\ LET res == Sent(sink[k].obs, sink[k].seq).res IN
                  sink[k].payload = IF res.tag = "Ok"
                                    THEN JsonArray(AllTexts(res.paths))
                                    ELSE ErrorObject(res.msg)
          /\ \A k \in 1..Len(sink) : \A l \in 1..Len(sink) :
               k # l => sink[k].seq # sink[l].seq)
    /\ [][ \A i \in ObsIds :
             (thr[i].state = "holding" /\ thr'[i] # thr[i]) =>
                /\ Len(sink') = Len(sink) + 1
                /\ thr'[i].state = "running" ]_vars

\* ------------------------------------------------- stop, twice
\* the steps of stop
StopPcs == {"stop_watcher", "stop_release", "stop_join"}

\* C18: the stop that Drop runs on a replaced guard after set_root has
\* stopped it (the second stop) finds both handles taken and does nothing:
\* no unwatch, no release, no join, it changes nothing but the caller's place;
\* a handle taken out of a guard stays out, so that unwatch and join run at
\* most once per guard; and when the first stop has returned the guard is
\* already fully stopped.
C18_SecondStopNoOp ==
    /\ [](\A c \in Callers :
            (pc[c] \in StopPcs /\ stopRet[c] = "new") =>
               /\ pc[c] # "stop_release"
               /\ Stopped(existing[c]))
    /\ [][ /\ \A c \in Callers :
                (pc[c] \in StopPcs /\ stopRet[c] = "new" /\ pc'[c] # pc[c]) =>
                   /\ unwatchRes' = unwatchRes
                   /\ UNCHANGED << inner, guards, native, chan, thr, sink,
                                   lockHolder >>
           /\ \A g \in ObsIds :
                /\ (guards[g].watcher = NoObs /\ thr[g].state # "none") =>
                      guards'[g].watcher = NoObs
                /\ (guards[g].thread = NoObs /\ thr[g].state # "none") =>
                      guards'[g].thread = NoObs
                /\ (guards[g].watcher # NoObs /\ guards'[g].watcher = NoObs) =>
                      \E c \in Callers :
                          /\ pc[c] = "stop_watcher" /\ existing[c] = g
                          /\ stopRet[c] = "drop_existing"
                /\ (guards[g].thread # NoObs /\ guards'[g].thread = NoObs) =>
                      \E c \in Callers :
                          /\ pc[c] = "stop_join" /\ existing[c] = g
                          /\ stopRet[c] = "drop_existing" ]_vars

\* the second stop of a replaced guard has returned
C18_Witness ==
    \E c \in Callers :
        /\ pc[c] = "new"
        /\ existing[c] # NoObs
        /\ Stopped(existing[c])

\* ------------------------------------------------- a failed start
\* C19: a set_root that returns because the watcher cannot be created or the
\* root cannot be watched has spawned no thread, and the watcher it had
\* created, if any, is released with no watch and no sender; in every state a
\* watcher that was created, has no thread and is not the one a call is
\* starting, is released, watches nothing and has no sender left.
C19_FailedStartLeaksNothing ==
    /\ [](\A i \in ObsIds :
            (Created(i) /\ thr[i].state = "none"
                /\ \A c \in Callers : fresh[c] # i) =>
               /\ ~native[i].alive
               /\ ~WatchRegistered(i)
               /\ native[i].reg # "yes"
               /\ ~native[i].txOpen)
    /\ [][ \A c \in Callers :
             (pc[c] \in {"new", "watch"} /\ pc'[c] = "idle") =>
                /\ returned' \in {"ErrInitNew", "ErrInitWatch"}
                /\ thr' = thr
                /\ nextId' = nextId
                /\ \A i \in ObsIds : native'[i].alive => i = inner
                /\ fresh[c] # NoObs =>
                     /\ native'[fresh[c]] = NoNative
                     /\ chan'[fresh[c]] = <<>> ]_vars

\* the first watcher was created, its root could not be watched, and the
\* call has returned the error
C19_Witness ==
    /\ returned = "ErrInitWatch"
    /\ lockHolder = NoCaller
    /\ nextId = 2
    /\ thr[1].state = "none"
    /\ ~native[1].alive

\* ------------------------------------------------- a thread that ended alone
\* the thread of guard g has ended although stop was never called on g
EndedAlone(g) == thr[g].state = "exited" /\ guards[g].watcher # NoObs

\* C20: the end of a forwarding thread leaves the slot, the guards and the
\* mutex as they are; a set_root call that takes a guard whose thread has
\* ended alone eventually returns; and the join of a thread that has ended
\* can be taken at once.
C20_EndedAloneStillReplaced ==
    /\ [][ \A i \in ObsIds :
             (thr[i].state # "exited" /\ thr'[i].state = "exited") =>
                UNCHANGED << inner, guards, lockHolder, poisoned >> ]_vars
    /\ \A c \in Callers :
          (pc[c] = "take" /\ inner # NoObs /\ EndedAlone(inner)) ~> (pc[c] = "idle")
    /\ [](\A c \in Callers :
            (pc[c] = "stop_join" /\ thr[existing[c]].state = "exited") =>
               ENABLED StopJoin(c))

\* set_root is stopping the guard it took from the slot, whose thread had
\* ended alone, the watcher still alive
C20_Witness ==
    \E c \in Callers :
        /\ pc[c] = "stop_watcher"
        /\ stopRet[c] = "drop_existing"
        /\ EndedAlone(existing[c])
        /\ native[existing[c]].alive

====
